---- MODULE Spec2Model ----
(***************************************************************************)
(* pdf-prepender: the link-offset protocol of DocumentBuilder.build(), the *)
(* Link Table (LinkManager), the Page Composer's anchors (PageGenerator),  *)
(* the PDF Assembler (PdfMerger) and the Link Binder (LinkAnnotator).      *)
(*                                                                         *)
(* The specifications share the variables:                                 *)
(*   SpecLM  a LinkManager driven by an arbitrary sequence of its calls;   *)
(*   Spec    a DocumentBuilder: its builds, step by step, its page-count   *)
(*           preview and the getters of its link manager;                  *)
(*   SpecLB  LinkAnnotator.add_links called on any document and any list   *)
(*           of link positions;                                            *)
(*   SpecPG  PageGenerator.generate on specifications whose bullets use    *)
(*           every overflowBehavior, with a link manager at any offset;    *)
(*   SpecTF  TextFormatter.format_text with the default markers, on texts  *)
(*           made of plain runs and marker pairs;                          *)
(*   SpecFR  LinkAnnotator._add_link choosing the rectangle of one link,   *)
(*           for any matches of the text search;                           *)
(*   SpecPGR one PageGenerator whose generate is called again and again,   *)
(*           the offset of its link manager changing in between;           *)
(*   SpecBP  PageGenerator._build_bullet_point composing the text of one   *)
(*           bullet and the character ranges of its links;                 *)
(*   SpecLH  LinkAnnotator.add_links with the handles it opens and closes, *)
(*           the PDF engine and the output failing at any call;            *)
(*   SpecJSON  DocumentBuilder.from_dict on any JSON data, and the builds  *)
(*           of the builder it creates.                                    *)
(***************************************************************************)
EXTENDS Integers, Sequences, FiniteSets, TLC

(***************************************************************************)
(* Bounds of the model.                                                    *)
(***************************************************************************)
MaxRecords == 2     \* records registered in a LinkManager (SpecLM)
MaxPage == 9        \* original_page arguments are 1, 2 and MaxPage
MaxCount == 2       \* set_prepended_page_count arguments are 0..MaxCount (SpecLM)
MaxElems == 2       \* content elements of a specification, over all its pages
MaxLinks == 1       \* LinkItems of one bullet
MaxOrig == 2        \* pages of the original document
FrameCap == 2       \* lines the layout engine fits in one page frame
MaxSegs == 3                          \* runs and marker pairs of a text (SpecTF)
MaxInner == 2                         \* characters of a run or inside a pair (SpecTF)
MaxMatches == 3                       \* matches of one text search (SpecFR)
PageHeight == 4                       \* page.rect.height, in lines (SpecFR)
MaxAnchors == 2     \* link positions handed to add_links (SpecLB)

MaxSpecPages == MaxElems              \* pages of a specification
MaxTarget == MaxOrig + 1              \* targetPage of a LinkItem: in and out of range
MaxHeight == FrameCap + 1             \* lines of one element: fitting and too tall

(***************************************************************************)
(* Values.  Python's None is the empty sequence and a present int n is     *)
(* <<n>>; a str is a sequence of one-character strings.                    *)
(***************************************************************************)
None == <<>>
Some(n) == <<n>>

Digit(d) == <<"0", "1", "2", "3", "4", "5", "6", "7", "8", "9">>[d + 1]

RECURSIVE Str(_)
\* str(n) of a Python int, as f"{n}" formats it
Str(n) ==
    IF n < 0 THEN <<"-">> \o Str(-n)
    ELSE IF n < 10 THEN <<Digit(n)>>
    ELSE Str(n \div 10) \o <<Digit(n % 10)>>

PagePrefix == <<"p", "a", "g", "e", "_">>

VARIABLES
    spec,               \* DocumentBuilder.spec
    link_manager,       \* the LinkManager: [prepended_page_count, links]
    pc,                 \* position of the builder in build()
    args,               \* arguments of the running build()
    prepend_page_count, \* build(): the count kept from pass 1
    generator,          \* build(): generator.link_positions of the current PageGenerator
    prepend_bytes,      \* build(): the prefix document of pass 2
    link_positions,     \* build(): the anchors returned by pass 2
    doc,                \* the merged document, then the annotated one
    faults,             \* add_links: what raised in the PDF engine, for each anchor
    written,            \* what has been written to the output path or stream
    page_count,         \* what get_prepend_page_count() returned to the caller
    previous,           \* what the build() before the last call of build() produced
    steps,              \* the steps the running or last build() has completed
    offset_set,         \* set_prepended_page_count has been called on the link manager
    call                \* the call that ran last: [op, arg, ret]

vars == <<spec, link_manager, pc, args, prepend_page_count, generator,
          prepend_bytes, link_positions, doc, faults, written, page_count,
          previous, steps, offset_set, call>>

builderVars == <<spec, pc, args, prepend_page_count, generator,
                 prepend_bytes, link_positions, doc, faults, written, page_count,
                 previous, steps>>

(***************************************************************************)
(* Link Table: LinkManager and LinkInfo (core/link_manager.py).            *)
(***************************************************************************)
LinkInfo(original_page) ==
    [original_page |-> original_page, adjusted_page |-> None]

NewLinkManager == [prepended_page_count |-> 0, links |-> <<>>]

\* mutant of RegisterLink: a page already registered gets no further record
RegisterLinkOnce(lm, original_page) ==
    IF \E i \in 1..Len(lm.links) : lm.links[i].original_page = original_page
    THEN lm
    ELSE [lm EXCEPT !.links = Append(@, LinkInfo(original_page))]

\* LinkManager.register_link: the manager after the call
RegisterLink(lm, original_page) ==
    [lm EXCEPT !.links = Append(@, LinkInfo(original_page))]

\* mutant of UpdateAllLinks: a record already resolved keeps its adjusted page
UpdateUnresolvedLinks(lm) ==
    [lm EXCEPT !.links =
        [i \in 1..Len(lm.links) |->
            IF lm.links[i].adjusted_page # None THEN lm.links[i]
            ELSE [lm.links[i] EXCEPT !.adjusted_page =
                    Some(lm.links[i].original_page + lm.prepended_page_count)]]]

\* LinkManager._update_all_links
UpdateAllLinks(lm) ==
    [lm EXCEPT !.links =
        [i \in 1..Len(lm.links) |->
            [lm.links[i] EXCEPT !.adjusted_page =
                Some(lm.links[i].original_page + lm.prepended_page_count)]]]

\* mutant of SetPrependedPageCount: the count is added to the one stored
SetPrependedPageCountAdds(lm, count) ==
    UpdateAllLinks([lm EXCEPT !.prepended_page_count = @ + count])

\* mutant of SetPrependedPageCount: the records are resolved, the count is not stored
SetPrependedPageCountUnstored(lm, count) ==
    [lm EXCEPT !.links =
        [i \in 1..Len(lm.links) |->
            [lm.links[i] EXCEPT !.adjusted_page = Some(lm.links[i].original_page + count)]]]

\* LinkManager.set_prepended_page_count
SetPrependedPageCount(lm, count) ==
    UpdateAllLinks([lm EXCEPT !.prepended_page_count = count])

\* mutant of GetAdjustedPage: the sum is taken for a 0-based page index
GetAdjustedPageZeroBased(lm, original_page) ==
    original_page + lm.prepended_page_count - 1

\* LinkManager.get_adjusted_page
GetAdjustedPage(lm, original_page) ==
    original_page + lm.prepended_page_count

\* mutant of GetDestinationName: the name of the page before the offset
GetDestinationNameUnadjusted(lm, original_page) ==
    PagePrefix \o Str(original_page)

\* LinkManager.get_destination_name
GetDestinationName(lm, original_page) ==
    PagePrefix \o Str(GetAdjustedPage(lm, original_page))

\* LinkManager.clear
ClearLinks(lm) == [lm EXCEPT !.links = <<>>]

\* LinkInfo.destination_name
DestinationNameOf(link) ==
    PagePrefix \o Str(IF link.adjusted_page # None
                      THEN link.adjusted_page[1] ELSE link.original_page)

(***************************************************************************)
(* The specification (models/schema.py).  A content element is given by    *)
(* the targetPages of its LinkItems, in content order (none for a section  *)
(* heading, a subheading or a bullet of plain text: the plain items of a   *)
(* bullet carry no anchor), and by the lines it takes in the frame.  A     *)
(* pageHeading is a paragraph without links: it is the first link-free     *)
(* element of its page.                                                    *)
(***************************************************************************)
SeqsUpTo(S, n) == UNION {[1..k -> S] : k \in 0..n}

\* OverflowBehavior
OverflowBehaviors == {"noWrap", "wrap", "wrapWithPageBreak"}

\* the elements of a build: overflowBehavior at its default
Element ==
    [links : SeqsUpTo(1..MaxTarget, MaxLinks), height : 1..MaxHeight,
     overflow_behavior : {"wrap"}]

\* Page: the content elements
PageOf(k) == [content : [1..k -> Element]]

RECURSIVE PagesWith(_, _)
\* the sequences of n pages that hold e elements in all
PagesWith(n, e) ==
    IF n = 0 THEN (IF e = 0 THEN {<<>>} ELSE {})
    ELSE UNION {{<<p>> \o rest : p \in PageOf(k), rest \in PagesWith(n - 1, e - k)} :
                    k \in 0..e}

\* PrependSpecification.pages: at least one page (min_length=1); the story
\* handed to the layout engine is not empty.
Specifications(max_pages, max_elems) ==
    {s \in UNION {PagesWith(n, e) : n \in 1..max_pages, e \in 0..max_elems} :
        Len(s) > 1 \/ Len(s[1].content) > 0}

(***************************************************************************)
(* Page Composer: PageGenerator (core/page_generator.py).                  *)
(***************************************************************************)
\* PageGenerator._build_content_items: the LinkInfo of every LinkItem,
\* stamped with the adjusted page the link manager knows now
BuildContentItems(lm, content) ==
    [k \in 1..Len(content) |-> [target_page |-> GetAdjustedPage(lm, content[k])]]

\* a LinkTrackingParagraph when there are links, else a Paragraph
Flowable(links, height) ==
    [kind |-> IF links # <<>> THEN "LinkTrackingParagraph" ELSE "Paragraph",
     height |-> height, links |-> links]

\* mutant of BuildContentElement: the text of a link shows its adjusted page,
\* and takes a line more once the offset is set
BuildContentElementShowsPage(lm, element) ==
    LET links == BuildContentItems(lm, element.links)
        height == element.height
                    + (IF links # <<>> /\ lm.prepended_page_count > 0 THEN 1 ELSE 0)
        flowable == Flowable(links, height)
    IN  IF element.overflow_behavior = "wrapWithPageBreak"
        THEN <<[kind |-> "KeepTogether", height |-> height, links |-> links]>>
        ELSE IF element.overflow_behavior = "noWrap"
        THEN <<Flowable(links, height)>>
        ELSE <<flowable>>

\* mutant of BuildContentElement: noWrap returns the first paragraph as well
BuildContentElementBoth(lm, element) ==
    LET links == BuildContentItems(lm, element.links)
        flowable == Flowable(links, element.height)
    IN  IF element.overflow_behavior = "wrapWithPageBreak"
        THEN <<[kind |-> "KeepTogether", height |-> element.height, links |-> links]>>
        ELSE IF element.overflow_behavior = "noWrap"
        THEN <<flowable, Flowable(links, element.height)>>
        ELSE <<flowable>>

\* PageGenerator._build_bullet_point and the heading builders: a
\* LinkTrackingParagraph when the element has links, else a Paragraph;
\* wrapWithPageBreak puts it in a KeepTogether, noWrap builds a second
\* paragraph of the same text and links (the style is a copy) and returns
\* that one only
BuildContentElement(lm, element) ==
    LET links == BuildContentItems(lm, element.links)
        flowable == Flowable(links, element.height)
    IN  IF element.overflow_behavior = "wrapWithPageBreak"
        THEN <<[kind |-> "KeepTogether", height |-> element.height, links |-> links]>>
        ELSE IF element.overflow_behavior = "noWrap"
        THEN <<Flowable(links, element.height)>>
        ELSE <<flowable>>

RECURSIVE BuildElements(_, _, _)
BuildElements(lm, content, i) ==
    IF i > Len(content) THEN <<>>
    ELSE BuildContentElement(lm, content[i]) \o BuildElements(lm, content, i + 1)

\* PageGenerator._build_page
BuildPage(lm, page, is_first) ==
    (IF is_first THEN <<>> ELSE <<[kind |-> "PageBreak", height |-> 0, links |-> <<>>]>>)
    \o BuildElements(lm, page.content, 1)

RECURSIVE BuildPages(_, _, _)
\* PageGenerator.generate: the flowables of all pages
BuildPages(lm, pages, i) ==
    IF i > Len(pages) THEN <<>>
    ELSE BuildPage(lm, pages[i], i = 1) \o BuildPages(lm, pages, i + 1)

\* mutant of Draw: the page number of the canvas is taken as the index
DrawPageNumber(f, page) ==
    [k \in 1..Len(f.links) |->
        [page_index |-> page, target_page |-> f.links[k].target_page]]

\* LinkTrackingParagraph.draw: one LinkPosition per link, on the page
\* the canvas is at
Draw(f, page) ==
    [k \in 1..Len(f.links) |->
        [page_index |-> page - 1, target_page |-> f.links[k].target_page]]

RECURSIVE DocBuild(_, _)
\* doc.build(flowables) of the layout engine.  st.page counts the pages begun,
\* st.open says a page is open and st.used the lines taken in its frame.
\* A Paragraph that does not fit is split over the page end; a
\* LinkTrackingParagraph cannot split: it moves to the next page, and one
\* taller than an empty frame is a LayoutError.  A KeepTogether that does not
\* fit in what is left of the frame breaks the page first; then, and when it
\* fits, its content is laid out as it would be alone.
DocBuild(fs, st) ==
    IF fs = <<>> THEN [error |-> FALSE, page |-> st.page, link_positions |-> st.link_positions]
    ELSE
      LET f == Head(fs)
          s == IF st.open THEN st
               ELSE [st EXCEPT !.page = @ + 1, !.open = TRUE, !.used = 0]
      IN  CASE f.kind = "PageBreak" ->
                 DocBuild(Tail(fs), [s EXCEPT !.open = FALSE])
            [] f.kind = "Paragraph" ->
                 IF s.used + f.height <= FrameCap
                 THEN DocBuild(Tail(fs), [s EXCEPT !.used = @ + f.height])
                 ELSE DocBuild(<<[f EXCEPT !.height = @ - (FrameCap - s.used)]>> \o Tail(fs),
                               [s EXCEPT !.page = @ + 1, !.used = 0])
            [] f.kind = "KeepTogether" ->
                 IF s.used + f.height > FrameCap /\ s.used > 0
                 THEN DocBuild(fs, [s EXCEPT !.page = @ + 1, !.used = 0])
                 ELSE DocBuild(<<Flowable(f.links, f.height)>> \o Tail(fs), s)
            [] f.kind = "LinkTrackingParagraph" ->
                 IF s.used + f.height <= FrameCap
                 THEN DocBuild(Tail(fs),
                               [s EXCEPT !.used = @ + f.height,
                                         !.link_positions = @ \o Draw(f, s.page)])
                 ELSE IF s.used = 0
                 THEN [error |-> TRUE, page |-> s.page, link_positions |-> s.link_positions]
                 ELSE DocBuild(fs, [s EXCEPT !.page = @ + 1, !.used = 0])

\* the pages of a generated prefix document
PrependPages(n) == [i \in 1..n |-> [of |-> "prepend", no |-> i]]

\* mutant of Clear: the list keeps what it holds
ClearKeeps(own) == own

\* self.link_positions.clear()
Clear(own) == <<>>

\* generate() of a PageGenerator whose self.link_positions holds own:
\* (bytes, page_count, link_positions), or the error the layout engine
\* raised.  self.link_positions is cleared first and holds own_list
\* afterwards; the list returned is a copy, list(self.link_positions), not
\* the list of the generator itself (shares_list).
GenerateOn(sp, lm, own) ==
    LET r == DocBuild(BuildPages(lm, sp, 1),
                      [page |-> 0, open |-> FALSE, used |-> 0,
                       link_positions |-> Clear(own)])
    IN  [error |-> r.error,
         bytes |-> PrependPages(r.page),
         page_count |-> r.page,
         link_positions |-> r.link_positions,
         own_list |-> r.link_positions,
         shares_list |-> FALSE]

\* PageGenerator(spec, link_manager).generate(): a new generator, whose
\* link_positions is empty
Generate(sp, lm) ==
    LET r == GenerateOn(sp, lm, <<>>)
    IN  [error |-> r.error,
         bytes |-> r.bytes,
         page_count |-> r.page_count,
         link_positions |-> r.link_positions]

(***************************************************************************)
(* The calls of a LinkManager.  Each is one whole method.                  *)
(***************************************************************************)
\* no build() of the builder is running: single-threaded, calls do not overlap
NoBuildRunning == pc \in {"idle", "done", "failed"}

\* the original_page arguments of the calls: the first pages and a far one
PageArgs == {1, 2, MaxPage}

IdleBuilder ==
    /\ pc = "idle"
    /\ args = None
    /\ prepend_page_count = None
    /\ generator = None
    /\ prepend_bytes = None
    /\ link_positions = None
    /\ doc = None
    /\ faults = None
    /\ written = <<>>
    /\ page_count = None
    /\ previous = None
    /\ steps = <<>>

\* ret is the record returned, by its place in _links
register_link ==
    /\ Len(link_manager.links) < MaxRecords
    /\ \E p \in PageArgs :
        /\ link_manager' = RegisterLink(link_manager, p)
        /\ call' = [op |-> "register_link", arg |-> p,
                    ret |-> Len(link_manager'.links)]
    /\ UNCHANGED <<builderVars, offset_set>>

\* old is the count the call replaces
set_prepended_page_count ==
    /\ \E count \in 0..MaxCount :
        /\ link_manager' = SetPrependedPageCount(link_manager, count)
        /\ call' = [op |-> "set_prepended_page_count", arg |-> count, ret |-> None,
                    old |-> link_manager.prepended_page_count]
    /\ offset_set' = TRUE
    /\ UNCHANGED builderVars

get_adjusted_page ==
    /\ NoBuildRunning
    /\ \E p \in PageArgs :
        call' = [op |-> "get_adjusted_page", arg |-> p,
                 ret |-> GetAdjustedPage(link_manager, p)]
    /\ UNCHANGED <<link_manager, builderVars, offset_set>>

get_destination_name ==
    /\ NoBuildRunning
    /\ \E p \in PageArgs :
        call' = [op |-> "get_destination_name", arg |-> p,
                 ret |-> GetDestinationName(link_manager, p)]
    /\ UNCHANGED <<link_manager, builderVars, offset_set>>

clear ==
    /\ link_manager' = ClearLinks(link_manager)
    /\ call' = [op |-> "clear", arg |-> None, ret |-> None]
    /\ UNCHANGED <<builderVars, offset_set>>

InitLM ==
    /\ spec = None
    /\ IdleBuilder
    /\ link_manager = NewLinkManager
    /\ offset_set = FALSE
    /\ call = [op |-> "LinkManager", arg |-> None, ret |-> None]

NextLM ==
    \/ register_link
    \/ set_prepended_page_count
    \/ get_adjusted_page
    \/ get_destination_name
    \/ clear

SpecLM == InitLM /\ [][NextLM]_vars

(***************************************************************************)
(* PDF Assembler: PdfMerger (core/pdf_merger.py).                          *)
(***************************************************************************)
\* the pages a reader finds in the original document
OriginalPages(n) == [j \in 1..n |-> [of |-> "original", no |-> j]]

\* mutant of NamedDestinations: the title is made of the 0-based index
NamedDestinationsZeroBased(total_pages) ==
    [n \in 1..total_pages |-> [title |-> PagePrefix \o Str(n - 1), page_number |-> n - 1]]

\* the loop creating one named destination per page of the writer
NamedDestinations(total_pages) ==
    [n \in 1..total_pages |-> [title |-> PagePrefix \o Str(n), page_number |-> n - 1]]

\* mutant of MergeWithDestinations: the original pages are added first
MergeOriginalFirst(prepend, original_pdf) ==
    [pages |-> OriginalPages(original_pdf) \o prepend,
     named_destinations |-> NamedDestinations(Len(prepend) + original_pdf),
     links |-> <<>>]

\* PdfMerger.merge_with_destinations_and_links with no link positions and no
\* output: the merged document
MergeWithDestinations(prepend, original_pdf) ==
    LET prepend_count == Len(prepend)
        original_count == Len(OriginalPages(original_pdf))
        total_pages == prepend_count + original_count
    IN  [pages |-> prepend \o OriginalPages(original_pdf),
         named_destinations |-> NamedDestinations(total_pages),
         links |-> <<>>]

(***************************************************************************)
(* Link Binder: LinkAnnotator (core/link_annotator.py).                    *)
(***************************************************************************)
\* what the PDF engine may do for one anchor: nothing wrong, page.search_for
\* raises, or page.insert_link raises
FaultKinds == {"none", "search", "insert"}

\* the page indices of _add_link pass its validation
InRange(d, link_pos) ==
    LET page_idx == link_pos.page_index
        target_page_idx == link_pos.target_page - 1
    IN  /\ ~(page_idx < 0 \/ page_idx >= Len(d.pages))
        /\ ~(target_page_idx < 0 \/ target_page_idx >= Len(d.pages))

\* the faults that can happen in one add_links: a call that is not made does
\* not raise (no search or insertion for an anchor that fails the validation,
\* nor for the anchors after one whose search raised)
FaultsOf(d, positions) ==
    {f \in [1..Len(positions) -> FaultKinds] :
        \A i \in 1..Len(positions) :
            /\ ~InRange(d, positions[i]) => f[i] = "none"
            /\ (\E j \in 1..(i - 1) : f[j] = "search") => f[i] = "none"}

\* mutant of AddLink: the link goes to the 1-based target page taken as an index
AddLinkOneBased(d, link_pos, i, fault) ==
    LET page_idx == link_pos.page_index
        target_page_idx == link_pos.target_page - 1
    IN  IF page_idx < 0 \/ page_idx >= Len(d.pages)
        THEN [raised |-> FALSE, links |-> d.links]
        ELSE IF target_page_idx < 0 \/ target_page_idx >= Len(d.pages)
        THEN [raised |-> FALSE, links |-> d.links]
        ELSE IF fault = "search" THEN [raised |-> TRUE, links |-> d.links]
        ELSE IF fault = "insert" THEN [raised |-> FALSE, links |-> d.links]
        ELSE [raised |-> FALSE,
              links |-> Append(d.links, [kind |-> "goto", from |-> i, on_page |-> page_idx,
                                         page |-> link_pos.target_page])]

\* mutant of AddLink: the target page is not validated
AddLinkTargetUnchecked(d, link_pos, i, fault) ==
    LET page_idx == link_pos.page_index
        target_page_idx == link_pos.target_page - 1
    IN  IF page_idx < 0 \/ page_idx >= Len(d.pages)
        THEN [raised |-> FALSE, links |-> d.links]
        ELSE IF fault = "search" THEN [raised |-> TRUE, links |-> d.links]
        ELSE IF fault = "insert" THEN [raised |-> FALSE, links |-> d.links]
        ELSE [raised |-> FALSE,
              links |-> Append(d.links, [kind |-> "goto", from |-> i, on_page |-> page_idx,
                                         page |-> target_page_idx])]

\* mutant of AddLink: only the upper ends of the two ranges are validated
AddLinkUpperOnly(d, link_pos, i, fault) ==
    LET page_idx == link_pos.page_index
        target_page_idx == link_pos.target_page - 1
    IN  IF page_idx >= Len(d.pages)
        THEN [raised |-> FALSE, links |-> d.links]
        ELSE IF target_page_idx >= Len(d.pages)
        THEN [raised |-> FALSE, links |-> d.links]
        ELSE IF fault = "search" THEN [raised |-> TRUE, links |-> d.links]
        ELSE IF fault = "insert" THEN [raised |-> FALSE, links |-> d.links]
        ELSE [raised |-> FALSE,
              links |-> Append(d.links, [kind |-> "goto", from |-> i, on_page |-> page_idx,
                                         page |-> target_page_idx])]

\* LinkAnnotator._add_link for the i-th link position: the links the document
\* has afterwards, or raised when the call raises.  _find_text_rect and
\* _get_estimated_rect run outside the try: what page.search_for raises leaves
\* _add_link; what page.insert_link raises is caught.
AddLink(d, link_pos, i, fault) ==
    LET page_idx == link_pos.page_index
        target_page_idx == link_pos.target_page - 1
    IN  IF page_idx < 0 \/ page_idx >= Len(d.pages)
        THEN [raised |-> FALSE, links |-> d.links]
        ELSE IF target_page_idx < 0 \/ target_page_idx >= Len(d.pages)
        THEN [raised |-> FALSE, links |-> d.links]
        ELSE IF fault = "search" THEN [raised |-> TRUE, links |-> d.links]
        ELSE IF fault = "insert" THEN [raised |-> FALSE, links |-> d.links]
        ELSE [raised |-> FALSE,
              links |-> Append(d.links, [kind |-> "goto", from |-> i, on_page |-> page_idx,
                                         page |-> target_page_idx])]

RECURSIVE AddLinksFrom(_, _, _, _)
\* the loop of LinkAnnotator.add_links over the link positions, from the i-th:
\* the document, or raised when an _add_link raised (the finally closes the
\* document and the exception leaves add_links)
AddLinksFrom(d, positions, i, f) ==
    IF i > Len(positions) THEN [raised |-> FALSE, doc |-> d]
    ELSE LET r == AddLink(d, positions[i], i, f[i])
         IN  IF r.raised THEN [raised |-> TRUE, doc |-> d]
             ELSE AddLinksFrom([d EXCEPT !.links = r.links], positions, i + 1, f)

\* LinkAnnotator.add_links, up to _write_output: the annotated document
AddLinks(d, positions, f) ==
    IF positions = <<>> THEN [raised |-> FALSE, doc |-> d]
    ELSE AddLinksFrom(d, positions, 1, f)

\* mutant of WriteOutputReturns: the bytes are returned also when they were written
WriteOutputReturnsAlways(d, output) == Some(d)

\* LinkAnnotator._write_output: what the call returns
WriteOutputReturns(d, output) == IF output = "None" THEN Some(d) ELSE None

\* LinkAnnotator._write_output: what the output path or stream holds afterwards
WriteOutputWrites(d, output, w) == IF output = "None" THEN w ELSE Append(w, d)

(***************************************************************************)
(* Document Builder: DocumentBuilder (core/document_builder.py).           *)
(* pc is the statement of build() that runs next.                          *)
(***************************************************************************)
Outputs == {"None", "path", "stream"}

\* the steps of build(), in the order of its statements
BuildSteps == <<"counting", "offset-resolved", "rendering", "merged", "annotated">>

\* the methods that run a build: build_to_file(original_pdf, output_path) is
\* self.build(original_pdf, output=output_path)
BuildMethods == {"build", "build_to_file"}

\* what a finished build() produced, as its caller sees it: the original it was
\* given, the pages and named destinations of the final document, and the
\* target pages of the anchors it handed to the Link Binder
Built ==
    [original_pdf |-> args.original_pdf,
     pages |-> doc[1].pages,
     named_destinations |-> doc[1].named_destinations,
     targets |-> [i \in 1..Len(link_positions[1]) |-> link_positions[1][i].target_page]]

\* build(): the first pass, with the link manager of the builder.  The
\* arguments are the original document, by its page count and by whether a
\* PdfReader can read it (the page count of one it cannot read plays no part),
\* and the output.
FirstPass ==
    /\ NoBuildRunning
    /\ \E n \in 1..MaxOrig, r \in BOOLEAN, o \in Outputs, m \in BuildMethods :
        /\ m = "build_to_file" => o = "path"
        /\ ~r => n = 1
        /\ args' = [original_pdf |-> n, readable |-> r, output |-> o]
        /\ LET g == Generate(spec, link_manager)
           IN  /\ generator' = Some(g.link_positions)
               /\ IF g.error
                  THEN /\ pc' = "failed"
                       /\ prepend_page_count' = None
                       /\ steps' = <<>>
                       /\ call' = [op |-> m, arg |-> args', ret |-> "LayoutError"]
                  ELSE /\ pc' = "set_offset"
                       /\ prepend_page_count' = Some(g.page_count)
                       /\ steps' = <<"counting">>
                       /\ call' = [op |-> m, arg |-> args', ret |-> None]
    /\ prepend_bytes' = None
    /\ link_positions' = None
    /\ doc' = None
    /\ faults' = None
    /\ written' = <<>>
    /\ previous' = IF pc = "done" THEN Some(Built) ELSE previous
    /\ UNCHANGED <<spec, link_manager, page_count, offset_set>>

\* build(): self.link_manager.set_prepended_page_count(prepend_page_count)
SetOffset ==
    /\ pc = "set_offset"
    /\ link_manager' = SetPrependedPageCount(link_manager, prepend_page_count[1])
    /\ offset_set' = TRUE
    /\ pc' = "pass2"
    /\ steps' = Append(steps, "offset-resolved")
    /\ UNCHANGED <<spec, args, prepend_page_count, generator, prepend_bytes,
                   link_positions, doc, faults, written, page_count, previous, call>>

\* build(): the second pass, with a new PageGenerator
SecondPass ==
    /\ pc = "pass2"
    /\ LET g == Generate(spec, link_manager)
       IN  /\ generator' = Some(g.link_positions)
           /\ IF g.error
              THEN /\ pc' = "failed"
                   /\ call' = [call EXCEPT !.ret = "LayoutError"]
                   /\ UNCHANGED <<prepend_bytes, link_positions, steps>>
              ELSE /\ pc' = "merge"
                   /\ prepend_bytes' = Some(g.bytes)
                   /\ link_positions' = Some(g.link_positions)
                   /\ steps' = Append(steps, "rendering")
                   /\ UNCHANGED call
    /\ UNCHANGED <<spec, link_manager, args, prepend_page_count, doc, faults,
                   written, page_count, previous, offset_set>>

\* mutant of Merge: the error of the reader is caught and the build goes on
\* with the prefix pages alone
MergeCatchesError ==
    /\ pc = "merge"
    /\ doc' = Some(MergeWithDestinations(prepend_bytes[1],
                                         IF args.readable THEN args.original_pdf ELSE 0))
    /\ pc' = "add_links"
    /\ steps' = Append(steps, "merged")
    /\ UNCHANGED <<spec, link_manager, args, prepend_page_count, generator,
                   prepend_bytes, link_positions, faults, written, page_count,
                   previous, offset_set, call>>

\* mutant of Merge: the merger is given the output of the build and writes
\* the merged document to it
MergeWritesOutput ==
    /\ pc = "merge"
    /\ IF args.readable
       THEN /\ doc' = Some(MergeWithDestinations(prepend_bytes[1], args.original_pdf))
            /\ written' = WriteOutputWrites(doc'[1], args.output, written)
            /\ pc' = "add_links"
            /\ steps' = Append(steps, "merged")
            /\ UNCHANGED call
       ELSE /\ pc' = "failed"
            /\ call' = [call EXCEPT !.ret = "PdfReadError"]
            /\ UNCHANGED <<doc, steps, written>>
    /\ UNCHANGED <<spec, link_manager, args, prepend_page_count, generator,
                   prepend_bytes, link_positions, faults, page_count,
                   previous, offset_set>>

\* build(): merger.merge_with_destinations(prepend_bytes, original_pdf, None);
\* the PdfReader of an original document it cannot read raises
Merge ==
    /\ pc = "merge"
    /\ IF args.readable
       THEN /\ doc' = Some(MergeWithDestinations(prepend_bytes[1], args.original_pdf))
            /\ pc' = "add_links"
            /\ steps' = Append(steps, "merged")
            /\ UNCHANGED call
       ELSE /\ pc' = "failed"
            /\ call' = [call EXCEPT !.ret = "PdfReadError"]
            /\ UNCHANGED <<doc, steps>>
    /\ UNCHANGED <<spec, link_manager, args, prepend_page_count, generator,
                   prepend_bytes, link_positions, faults, written, page_count,
                   previous, offset_set>>

\* build(): annotator.add_links(merged_bytes, link_positions, output)
Annotate ==
    /\ pc = "add_links"
    /\ \E f \in FaultsOf(doc[1], link_positions[1]) :
        LET r == AddLinks(doc[1], link_positions[1], f)
        IN  /\ faults' = Some(f)
            /\ IF r.raised
               THEN /\ pc' = "failed"
                    /\ call' = [call EXCEPT !.ret = "RuntimeError"]
                    /\ UNCHANGED <<doc, written, steps>>
               ELSE /\ pc' = "done"
                    /\ doc' = Some(r.doc)
                    /\ steps' = Append(steps, "annotated")
                    /\ written' = WriteOutputWrites(r.doc, args.output, written)
                    /\ call' = [call EXCEPT !.ret = WriteOutputReturns(r.doc, args.output)]
    /\ UNCHANGED <<spec, link_manager, args, prepend_page_count, generator,
                   prepend_bytes, link_positions, page_count, previous, offset_set>>

\* mutant of get_prepend_page_count: the count the link manager holds is
\* returned, no counting pass is run
get_prepend_page_count_stored ==
    /\ NoBuildRunning
    /\ call' = [op |-> "get_prepend_page_count", arg |-> None,
                ret |-> link_manager.prepended_page_count]
    /\ page_count' = Some(link_manager.prepended_page_count)
    /\ UNCHANGED <<spec, link_manager, pc, args, prepend_page_count, generator,
                   prepend_bytes, link_positions, doc, faults, written, previous, steps,
                   offset_set>>

\* mutant of get_prepend_page_count: the counting pass runs on the builder's
\* link manager and stores the count in it
get_prepend_page_count_shared ==
    /\ NoBuildRunning
    /\ LET g == Generate(spec, link_manager)
       IN  IF g.error
           THEN /\ call' = [op |-> "get_prepend_page_count", arg |-> None,
                            ret |-> "LayoutError"]
                /\ UNCHANGED <<page_count, link_manager, offset_set>>
           ELSE /\ call' = [op |-> "get_prepend_page_count", arg |-> None,
                            ret |-> g.page_count]
                /\ page_count' = Some(g.page_count)
                /\ link_manager' = SetPrependedPageCount(link_manager, g.page_count)
                /\ offset_set' = TRUE
    /\ UNCHANGED <<spec, pc, args, prepend_page_count, generator,
                   prepend_bytes, link_positions, doc, faults, written, previous, steps>>

\* DocumentBuilder.get_prepend_page_count
get_prepend_page_count ==
    /\ NoBuildRunning
    /\ LET g == Generate(spec, NewLinkManager)
       IN  IF g.error
           THEN /\ call' = [op |-> "get_prepend_page_count", arg |-> None,
                            ret |-> "LayoutError"]
                /\ UNCHANGED page_count
           ELSE /\ call' = [op |-> "get_prepend_page_count", arg |-> None,
                            ret |-> g.page_count]
                /\ page_count' = Some(g.page_count)
    /\ UNCHANGED <<spec, link_manager, pc, args, prepend_page_count, generator,
                   prepend_bytes, link_positions, doc, faults, written, previous, steps,
                   offset_set>>

\* DocumentBuilder.__init__
Init ==
    /\ spec \in Specifications(MaxSpecPages, MaxElems)
    /\ IdleBuilder
    /\ link_manager = NewLinkManager
    /\ offset_set = FALSE
    /\ call = [op |-> "DocumentBuilder", arg |-> None, ret |-> None]

Next ==
    \/ FirstPass
    \/ SetOffset
    \/ SecondPass
    \/ Merge
    \/ Annotate
    \/ get_prepend_page_count
    \/ get_destination_name

Spec == Init /\ [][Next]_vars

(***************************************************************************)
(* PageGenerator.generate called by itself: specifications of one page     *)
(* with one or two elements, or of two pages with one element each, the    *)
(* bullets with up to MaxLinks + 1 LinkItems and any overflowBehavior, and *)
(* a link manager whose offset is 0..MaxCount.                             *)
(***************************************************************************)
RichElements(max_items) ==
    [links : SeqsUpTo(1..MaxOrig, max_items), height : 1..MaxHeight,
     overflow_behavior : OverflowBehaviors]

RichSpecifications(E) ==
    {<<[content |-> <<a>>]>> : a \in E}
    \cup {<<[content |-> <<a, b>>]>> : a \in E, b \in E}
    \cup {<<[content |-> <<a>>], [content |-> <<b>>]>> : a \in E, b \in E}

\* PageGenerator.generate, of the one generator there is.  generator is its
\* self.link_positions, link_positions the list the last call returned and
\* previous the list the call before returned, as it is now.
generate ==
    /\ NoBuildRunning
    /\ LET r == GenerateOn(spec, link_manager,
                           IF generator = None THEN <<>> ELSE generator[1])
       IN  /\ generator' = Some(r.own_list)
           /\ IF r.error
              THEN /\ pc' = "failed"
                   /\ call' = [op |-> "generate", arg |-> None, ret |-> "LayoutError"]
                   /\ UNCHANGED <<prepend_bytes, prepend_page_count, link_positions>>
                   /\ previous' = previous
              ELSE /\ pc' = "done"
                   /\ prepend_bytes' = Some(r.bytes)
                   /\ prepend_page_count' = Some(r.page_count)
                   /\ link_positions' = Some(r.link_positions)
                   /\ previous' = IF link_positions = None THEN previous
                                  ELSE IF r.shares_list THEN Some(r.own_list)
                                  ELSE link_positions
                   /\ call' = [op |-> "generate", arg |-> None, ret |-> r.page_count]
    /\ UNCHANGED <<spec, link_manager, args, doc, faults, written, page_count, steps,
                   offset_set>>

InitPG ==
    /\ spec \in RichSpecifications(RichElements(MaxLinks + 1))
    /\ \E count \in 0..MaxCount :
          /\ link_manager = SetPrependedPageCount(NewLinkManager, count)
          /\ offset_set = (count > 0)
    /\ pc = "idle"
    /\ args = None
    /\ prepend_page_count = None
    /\ generator = None
    /\ prepend_bytes = None
    /\ link_positions = None
    /\ doc = None
    /\ faults = None
    /\ written = <<>>
    /\ page_count = None
    /\ previous = None
    /\ steps = <<>>
    /\ call = [op |-> "PageGenerator", arg |-> None, ret |-> None]

SpecPG == InitPG /\ [][generate]_vars

\* a PageGenerator for a specification of the builder's kind, its link
\* manager new
InitPGR ==
    /\ spec \in Specifications(MaxSpecPages, MaxElems)
    /\ IdleBuilder
    /\ link_manager = NewLinkManager
    /\ offset_set = FALSE
    /\ call = [op |-> "PageGenerator", arg |-> None, ret |-> None]

NextPGR ==
    \/ generate
    \/ set_prepended_page_count

SpecPGR == InitPGR /\ [][NextPGR]_vars

(***************************************************************************)
(* The rectangle of a link (core/link_annotator.py).  Coordinates are      *)
(* whole lines; text_instances is what page.search_for returns.            *)
(***************************************************************************)
Rect(x0, y0, x1, y1) == [x0 |-> x0, y0 |-> y0, x1 |-> x1, y1 |-> y1]

Abs(n) == IF n < 0 THEN -n ELSE n

\* mutant of ClosestRect: a match as close as the best so far replaces it
ClosestRectLast(text_instances, estimated_y, k, best_rect, best_distance) ==
    LET Closest[i \in 0..Len(text_instances)] ==
            IF i = 0 THEN [rect |-> best_rect, distance |-> best_distance]
            ELSE LET distance == Abs(text_instances[i].y1 - estimated_y)
                 IN  IF Closest[i - 1].distance = None
                        \/ distance <= Closest[i - 1].distance[1]
                     THEN [rect |-> Some(text_instances[i]), distance |-> Some(distance)]
                     ELSE Closest[i - 1]
    IN  Closest[Len(text_instances)].rect

RECURSIVE ClosestRect(_, _, _, _, _)
\* _find_text_rect: the loop over the matches from the k-th on; best_distance
\* None is float("inf")
ClosestRect(text_instances, estimated_y, k, best_rect, best_distance) ==
    IF k > Len(text_instances) THEN best_rect
    ELSE LET distance == Abs(text_instances[k].y1 - estimated_y)
         IN  IF best_distance = None \/ distance < best_distance[1]
             THEN ClosestRect(text_instances, estimated_y, k + 1,
                              Some(text_instances[k]), Some(distance))
             ELSE ClosestRect(text_instances, estimated_y, k + 1, best_rect, best_distance)

\* mutant of FindTextRect: an empty link text is searched like any other
FindTextRectSearchesEmpty(page_height, text_instances, link_pos) ==
    IF text_instances = <<>> THEN None
    ELSE IF Len(text_instances) = 1 THEN Some(text_instances[1])
    ELSE ClosestRect(text_instances, page_height - link_pos.y, 1, None, None)

\* LinkAnnotator._find_text_rect: the Rect, or None
FindTextRect(page_height, text_instances, link_pos) ==
    IF link_pos.link_text = <<>> THEN None
    ELSE IF text_instances = <<>> THEN None
    ELSE IF Len(text_instances) = 1 THEN Some(text_instances[1])
    ELSE ClosestRect(text_instances, page_height - link_pos.y, 1, None, None)

\* LinkAnnotator._get_estimated_rect
GetEstimatedRect(page_height, link_pos) ==
    Rect(link_pos.x,
         page_height - (link_pos.y + link_pos.height),
         link_pos.x + link_pos.width,
         page_height - link_pos.y)

\* LinkAnnotator._add_link: link_dict["from"]
LinkRect(page_height, text_instances, link_pos) ==
    LET link_rect == FindTextRect(page_height, text_instances, link_pos)
    IN  IF link_rect = None THEN GetEstimatedRect(page_height, link_pos)
        ELSE link_rect[1]

\* the rectangles a search can return: one line high, at any height of the
\* page, at the left or further right
MatchRects == {Rect(x0, y1 - 1, x0 + 1, y1) : x0 \in {1, 3}, y1 \in 1..PageHeight}

\* the link positions of an anchor, with and without a text
RectPositions ==
    [link_text : {<<>>, <<"a">>}, x : {1}, y : 0..(PageHeight - 1), width : {2},
     height : {1}]

\* _add_link, from the search to the link_dict
add_link_rect ==
    /\ pc = "idle"
    /\ pc' = "done"
    /\ call' = [op |-> "_add_link", arg |-> args.link_pos,
                ret |-> LinkRect(PageHeight, args.text_instances, args.link_pos)]
    /\ UNCHANGED <<spec, link_manager, args, prepend_page_count, generator, prepend_bytes,
                   link_positions, doc, faults, written, page_count, previous, steps,
                   offset_set>>

InitFR ==
    /\ args \in [link_pos : RectPositions,
                  text_instances : SeqsUpTo(MatchRects, MaxMatches)]
    /\ spec = None
    /\ link_manager = None
    /\ offset_set = FALSE
    /\ pc = "idle"
    /\ prepend_page_count = None
    /\ generator = None
    /\ prepend_bytes = None
    /\ link_positions = None
    /\ doc = None
    /\ faults = None
    /\ written = <<>>
    /\ page_count = None
    /\ previous = None
    /\ steps = <<>>
    /\ call = [op |-> "LinkAnnotator", arg |-> None, ret |-> None]

SpecFR == InitFR /\ [][add_link_rect]_vars

(***************************************************************************)
(* Marker Text Formatter: TextFormatter (parsers/text_formatter.py).  A    *)
(* text is a sequence of characters; the two placeholders and the four     *)
(* tags are single elements of it (a placeholder holds no marker character *)
(* and no text here holds the NUL character it is made with).              *)
(***************************************************************************)
BoldMarker == <<"*", "*">>
ItalicMarker == <<"_">>
BoldPlaceholder == "BOLD"
ItalicPlaceholder == "ITALIC"

RECURSIVE EscapeXml(_)
\* TextFormatter.escape_xml: html.escape(text, quote=False)
EscapeXml(text) ==
    IF text = <<>> THEN <<>>
    ELSE (CASE Head(text) = "&" -> <<"&", "a", "m", "p", ";">>
            [] Head(text) = "<" -> <<"&", "l", "t", ";">>
            [] Head(text) = ">" -> <<"&", "g", "t", ";">>
            [] OTHER -> <<Head(text)>>)
         \o EscapeXml(Tail(text))

\* the marker is at position i of the text
StartsWith(text, i, marker) ==
    /\ i + Len(marker) - 1 <= Len(text)
    /\ \A k \in 1..Len(marker) : text[i + k - 1] = marker[k]

\* marker(.+?)marker tried at i: where the closing marker can be, with one
\* character or more in between, none of them a line break (no DOTALL)
ClosingMarkers(text, i, marker) ==
    {j \in (i + Len(marker) + 1)..Len(text) :
        /\ StartsWith(text, j, marker)
        /\ \A k \in (i + Len(marker))..(j - 1) : text[k] # "\n"}

RECURSIVE FindIter(_, _, _)
\* pattern.finditer(text): the matches from position i on, leftmost first,
\* each with the nearest closing marker (non-greedy), none overlapping
FindIter(text, marker, i) ==
    IF i > Len(text) THEN <<>>
    ELSE IF StartsWith(text, i, marker) /\ ClosingMarkers(text, i, marker) # {}
    THEN LET j == CHOOSE c \in ClosingMarkers(text, i, marker) :
                    \A d \in ClosingMarkers(text, i, marker) : c <= d
         IN  <<[start |-> i, inner |-> i + Len(marker), close |-> j,
                end |-> j + Len(marker)]>>
             \o FindIter(text, marker, j + Len(marker))
    ELSE FindIter(text, marker, i + 1)

RECURSIVE ReplaceMatches(_, _, _, _, _, _)
\* the loop over reversed(matches), and pattern.sub: the matches ms[1..k]
\* replaced, last first, by open + group(1) + close
ReplaceMatches(text, ms, k, open, close, escape) ==
    IF k = 0 THEN text
    ELSE LET match == ms[k]
             group1 == SubSeq(text, match.inner, match.close - 1)
         IN  ReplaceMatches(SubSeq(text, 1, match.start - 1)
                                \o <<open>>
                                \o (IF escape THEN EscapeXml(group1) ELSE group1)
                                \o <<close>>
                                \o SubSeq(text, match.end, Len(text)),
                            ms, k - 1, open, close, escape)

RECURSIVE EscapeParts(_, _, _)
\* the parts between placeholders: escaped when outside bold and italic
EscapeParts(text, in_bold, in_italic) ==
    IF text = <<>> THEN <<>>
    ELSE IF Head(text) = BoldPlaceholder
    THEN <<Head(text)>> \o EscapeParts(Tail(text), ~in_bold, in_italic)
    ELSE IF Head(text) = ItalicPlaceholder
    THEN <<Head(text)>> \o EscapeParts(Tail(text), in_bold, ~in_italic)
    ELSE (IF in_bold \/ in_italic THEN <<Head(text)>> ELSE EscapeXml(<<Head(text)>>))
         \o EscapeParts(Tail(text), in_bold, in_italic)

RECURSIVE PlaceTags(_, _, _, _, _)
\* the placeholders replaced in turn by the opening and the closing tag
PlaceTags(text, placeholder, open, close, opening) ==
    IF text = <<>> THEN <<>>
    ELSE IF Head(text) = placeholder
    THEN <<IF opening THEN open ELSE close>>
         \o PlaceTags(Tail(text), placeholder, open, close, ~opening)
    ELSE <<Head(text)>> \o PlaceTags(Tail(text), placeholder, open, close, opening)

\* result.replace(placeholder, "")
Remove(text, placeholder) == SelectSeq(text, LAMBDA c : c # placeholder)

\* TextFormatter.format_text
FormatText(text, escape_first, apply_bold, apply_italic) ==
    IF escape_first
    THEN LET bold_matches == FindIter(text, BoldMarker, 1)
             r1 == ReplaceMatches(text, bold_matches, Len(bold_matches),
                                  BoldPlaceholder, BoldPlaceholder, TRUE)
             italic_matches == FindIter(r1, ItalicMarker, 1)
             r2 == ReplaceMatches(r1, italic_matches, Len(italic_matches),
                                  ItalicPlaceholder, ItalicPlaceholder, TRUE)
             r3 == EscapeParts(r2, FALSE, FALSE)
             r4 == IF apply_bold THEN PlaceTags(r3, BoldPlaceholder, "<b>", "</b>", TRUE)
                   ELSE Remove(r3, BoldPlaceholder)
         IN  IF apply_italic THEN PlaceTags(r4, ItalicPlaceholder, "<i>", "</i>", TRUE)
             ELSE Remove(r4, ItalicPlaceholder)
    ELSE LET r1 == IF apply_bold
                   THEN LET ms == FindIter(text, BoldMarker, 1)
                        IN  ReplaceMatches(text, ms, Len(ms), "<b>", "</b>", FALSE)
                   ELSE text
         IN  IF apply_italic
             THEN LET ms == FindIter(r1, ItalicMarker, 1)
                  IN  ReplaceMatches(r1, ms, Len(ms), "<i>", "</i>", FALSE)
             ELSE r1

(***************************************************************************)
(* format_text called on a text of up to MaxSegs segments: a run of plain  *)
(* characters, or a pair of bold or of italic markers around such a run.   *)
(* The plain characters are a letter, one that escape_xml rewrites, and a  *)
(* line break; no run is empty.                                            *)
(***************************************************************************)
PlainChars == {"a", "&", "\n"}

Runs == SeqsUpTo(PlainChars, MaxInner) \ {<<>>}

Segments == [kind : {"plain", "bold", "italic"}, text : Runs]

TextOfSegment(seg) ==
    CASE seg.kind = "bold" -> BoldMarker \o seg.text \o BoldMarker
      [] seg.kind = "italic" -> ItalicMarker \o seg.text \o ItalicMarker
      [] OTHER -> seg.text

RECURSIVE TextOf(_)
TextOf(segs) ==
    IF segs = <<>> THEN <<>> ELSE TextOfSegment(Head(segs)) \o TextOf(Tail(segs))

format_text ==
    /\ pc = "idle"
    /\ pc' = "done"
    /\ call' = [op |-> "format_text", arg |-> TextOf(args.segments),
                ret |-> FormatText(TextOf(args.segments), args.escape_first,
                                   args.apply_bold, args.apply_italic)]
    /\ UNCHANGED <<spec, link_manager, args, prepend_page_count, generator, prepend_bytes,
                   link_positions, doc, faults, written, page_count, previous, steps, offset_set>>

InitTF ==
    /\ args \in [segments : SeqsUpTo(Segments, MaxSegs), escape_first : BOOLEAN,
                  apply_bold : BOOLEAN, apply_italic : BOOLEAN]
    /\ spec = None
    /\ link_manager = None
    /\ offset_set = FALSE
    /\ pc = "idle"
    /\ prepend_page_count = None
    /\ generator = None
    /\ prepend_bytes = None
    /\ link_positions = None
    /\ doc = None
    /\ faults = None
    /\ written = <<>>
    /\ page_count = None
    /\ previous = None
    /\ steps = <<>>
    /\ call = [op |-> "TextFormatter", arg |-> None, ret |-> None]

SpecTF == InitTF /\ [][format_text]_vars

(***************************************************************************)
(* The text of a bullet and the character ranges of its links              *)
(* (core/page_generator.py).  A content item is a plain string or a        *)
(* LinkableItem; the tags of the formatted text are single elements.       *)
(***************************************************************************)
Separator == <<",", " ">>

\* the bullet character U+2022, one character of the text
BulletGlyph == "U+2022"

RECURSIVE BuildContentItemsFrom(_, _, _, _)
\* the loop of _build_content_items from the i-th item on; acc holds
\* formatted_parts, plain_parts and links joined so far, and current_pos
BuildContentItemsFrom(lm, content, i, acc) ==
    IF i > Len(content) THEN acc
    ELSE LET item == content[i]
             sep == IF i > 1 THEN Separator ELSE <<>>
             pos == acc.current_pos + Len(sep)
         IN  IF item.kind = "link"
             THEN BuildContentItemsFrom(lm, content, i + 1,
                    [formatted |-> acc.formatted \o sep \o <<"<font color=blue>", "<u>">>
                                     \o EscapeXml(item.text) \o <<"</u>", "</font>">>,
                     plain |-> acc.plain \o sep \o item.text,
                     links |-> Append(acc.links,
                                 [text |-> item.text,
                                  target_page |-> GetAdjustedPage(lm, item.target_page),
                                  char_start |-> pos,
                                  char_end |-> pos + Len(item.text)]),
                     current_pos |-> pos + Len(item.text)])
             ELSE BuildContentItemsFrom(lm, content, i + 1,
                    [formatted |-> acc.formatted \o sep
                                     \o FormatText(item.text, TRUE, TRUE, TRUE),
                     plain |-> acc.plain \o sep \o item.text,
                     links |-> acc.links,
                     current_pos |-> pos + Len(item.text)])

\* PageGenerator._build_content_items: (formatted string, links, plain text)
BuildContentItemsText(lm, content) ==
    BuildContentItemsFrom(lm, content, 1,
        [formatted |-> <<>>, plain |-> <<>>, links |-> <<>>, current_pos |-> 0])

\* PageGenerator._strip_xml_tags: the markers turned to tags, the tags removed
StripXmlTags(text) ==
    SelectSeq(FormatText(text, TRUE, TRUE, TRUE),
              LAMBDA c : c \notin {"<b>", "</b>", "<i>", "</i>"})

\* mutant of BuildBulletPointText: the ranges of the content are kept as they are
BuildBulletPointTextNoPrefix(lm, element) ==
    LET built == BuildContentItemsText(lm, element.content)
        bullet_prefix == <<BulletGlyph, " ">> \o StripXmlTags(element.label) \o <<" ">>
    IN  [bullet_text |-> <<BulletGlyph, " ">> \o FormatText(element.label, TRUE, TRUE, TRUE)
                            \o <<" ">> \o built.formatted,
         plain_text |-> bullet_prefix \o built.plain,
         adjusted_links |-> built.links]

\* PageGenerator._build_bullet_point, up to the flowable: bullet_text,
\* plain_text and adjusted_links
BuildBulletPointText(lm, element) ==
    LET built == BuildContentItemsText(lm, element.content)
        bullet_prefix == <<BulletGlyph, " ">> \o StripXmlTags(element.label) \o <<" ">>
        prefix_len == Len(bullet_prefix)
    IN  [bullet_text |-> <<BulletGlyph, " ">> \o FormatText(element.label, TRUE, TRUE, TRUE)
                            \o <<" ">> \o built.formatted,
         plain_text |-> bullet_prefix \o built.plain,
         adjusted_links |->
            [k \in 1..Len(built.links) |->
                [built.links[k] EXCEPT !.char_start = @ + prefix_len,
                                       !.char_end = @ + prefix_len]]]

\* the texts of labels and items: empty, a letter, a character that
\* escape_xml rewrites, a comma, and marker pairs
ItemTexts ==
    SeqsUpTo({"a", "&", ","}, MaxInner)
    \cup {BoldMarker \o <<"a">> \o BoldMarker, ItalicMarker \o <<"a">> \o ItalicMarker}

ContentItems ==
    [kind : {"plain"}, text : ItemTexts]
    \cup [kind : {"link"}, text : ItemTexts, target_page : {1}]

Labels == {<<>>, <<"a">>, <<"&">>, BoldMarker \o <<"a">> \o BoldMarker}

build_bullet_point ==
    /\ pc = "idle"
    /\ pc' = "done"
    /\ call' = [op |-> "_build_bullet_point", arg |-> args,
                ret |-> BuildBulletPointText(link_manager, args)]
    /\ UNCHANGED <<spec, link_manager, args, prepend_page_count, generator, prepend_bytes,
                   link_positions, doc, faults, written, page_count, previous, steps,
                   offset_set>>

InitBP ==
    /\ args \in [label : Labels,
                  content : SeqsUpTo(ContentItems, MaxSegs) \ {<<>>}]
    /\ \E count \in {0, MaxCount} :
          /\ link_manager = SetPrependedPageCount(NewLinkManager, count)
          /\ offset_set = (count > 0)
    /\ spec = None
    /\ pc = "idle"
    /\ prepend_page_count = None
    /\ generator = None
    /\ prepend_bytes = None
    /\ link_positions = None
    /\ doc = None
    /\ faults = None
    /\ written = <<>>
    /\ page_count = None
    /\ previous = None
    /\ steps = <<>>
    /\ call = [op |-> "PageGenerator", arg |-> None, ret |-> None]

SpecBP == InitBP /\ [][build_bullet_point]_vars

(***************************************************************************)
(* JSON data and its validation (models/schema.py, parsers/json_parser.py).*)
(* An item of a content list is a plain string (None) or an object with    *)
(* text and targetPage (the targetPage, present).  Headings have a text    *)
(* and no content list.                                                    *)
(***************************************************************************)
HeadingTypes == {"sectionHeading", "sectionSubheading"}
BulletTypes == {"bulletPoint", "indentedBulletPoint"}

Items == {None} \cup {Some(t) : t \in 1..MaxTarget}

JsonElements ==
    [type : HeadingTypes, content : {<<>>}, height : 1..MaxHeight]
    \cup [type : BulletTypes, content : SeqsUpTo(Items, MaxLinks), height : 1..MaxHeight]

\* the data: no page, or one page of content elements
JsonData ==
    {[pages |-> <<>>]}
    \cup {[pages |-> <<[content |-> c]>>] :
            c \in SeqsUpTo(JsonElements, MaxElems) \ {<<>>}}

\* mutant of ValidateContent: an empty content list passes
ValidateContentAccepts(element) == TRUE

\* BulletPoint.validate_content and IndentedBulletPoint.validate_content: the
\* element passes the validation
ValidateContent(element) ==
    element.type \in BulletTypes => element.content # <<>>

RECURSIVE LinkItemsOf(_)
\* the targetPage of the LinkableItems of a content list, in order
LinkItemsOf(content) ==
    IF content = <<>> THEN <<>>
    ELSE (IF Head(content) # None THEN <<Head(content)[1]>> ELSE <<>>)
         \o LinkItemsOf(Tail(content))

\* PrependSpecification.model_validate: the ValidationError, or the model
ModelValidate(data) ==
    IF /\ Len(data.pages) >= 1
       /\ \A i \in 1..Len(data.pages) : \A j \in 1..Len(data.pages[i].content) :
            ValidateContent(data.pages[i].content[j])
    THEN [error |-> FALSE,
          spec |-> [i \in 1..Len(data.pages) |->
                     [content |-> [j \in 1..Len(data.pages[i].content) |->
                        [links |-> LinkItemsOf(data.pages[i].content[j].content),
                         height |-> data.pages[i].content[j].height,
                         overflow_behavior |-> "wrap"]]]]]
    ELSE [error |-> TRUE, spec |-> None]

\* DocumentBuilder.from_dict: parse_json_dict raises JsonParseError for a
\* ValidationError, and then no DocumentBuilder is created (pc stays "new")
from_dict ==
    /\ pc = "new"
    /\ \E data \in JsonData :
        LET r == ModelValidate(data)
        IN  IF r.error
            THEN /\ call' = [op |-> "from_dict", arg |-> data, ret |-> "JsonParseError"]
                 /\ UNCHANGED <<spec, link_manager, pc>>
            ELSE /\ call' = [op |-> "from_dict", arg |-> data, ret |-> "DocumentBuilder"]
                 /\ spec' = r.spec
                 /\ link_manager' = NewLinkManager
                 /\ pc' = "idle"
    /\ UNCHANGED <<args, prepend_page_count, generator, prepend_bytes, link_positions,
                   doc, faults, written, page_count, previous, steps, offset_set>>

InitJSON ==
    /\ spec = None
    /\ link_manager = None
    /\ offset_set = FALSE
    /\ pc = "new"
    /\ args = None
    /\ prepend_page_count = None
    /\ generator = None
    /\ prepend_bytes = None
    /\ link_positions = None
    /\ doc = None
    /\ faults = None
    /\ written = <<>>
    /\ page_count = None
    /\ previous = None
    /\ steps = <<>>
    /\ call = [op |-> "new", arg |-> None, ret |-> None]

NextJSON ==
    \/ from_dict
    \/ FirstPass
    \/ SetOffset
    \/ SecondPass
    \/ Merge
    \/ Annotate
    \/ get_prepend_page_count

SpecJSON == InitJSON /\ [][NextJSON]_vars

(***************************************************************************)
(* LinkAnnotator.add_links called by itself (add_links_to_pdf): the        *)
(* document is a merged one of t pages; the link positions are any, with   *)
(* page indices and target pages at and beyond both ends of the document.  *)
(***************************************************************************)
EdgePositions(t) ==
    [page_index : {-1, 0, t - 1, t}, target_page : {0, 1, t, t + 1}]

InitLB ==
    /\ spec = None
    /\ link_manager = NewLinkManager
    /\ offset_set = FALSE
    /\ prepend_page_count = None
    /\ generator = None
    /\ prepend_bytes = None
    /\ faults = None
    /\ written = <<>>
    /\ page_count = None
    /\ previous = None
    /\ steps = <<>>
    /\ pc = "add_links"
    /\ \E c \in 1..MaxCount, n \in 1..MaxOrig, o \in Outputs :
        /\ args = [original_pdf |-> n, readable |-> TRUE, output |-> o]
        /\ doc = Some(MergeWithDestinations(PrependPages(c), n))
        /\ link_positions \in {Some(ps) : ps \in SeqsUpTo(EdgePositions(c + n), MaxAnchors)}
        /\ call = [op |-> "add_links", arg |-> args, ret |-> None]

SpecLB == InitLB /\ [][Annotate]_vars

(***************************************************************************)
(* add_links with its handles.  events lists, in order, the handles opened *)
(* and closed: the document in the PDF engine (fitz.open, doc.close) and   *)
(* the output file (open(output, "wb") and the end of the with block).     *)
(* io is the call outside _add_link that raises, if one does.              *)
(***************************************************************************)
IoFaults == {"none", "fitz.open", "tobytes", "open", "write"}

\* LinkAnnotator._write_output after the events so far
WriteOutputIO(d, output, io, w, events) ==
    IF output = "None"
    THEN [raised |-> FALSE, ret |-> Some(d), written |-> w, events |-> events]
    ELSE IF output = "path"
    THEN IF io = "open"
         THEN [raised |-> TRUE, ret |-> None, written |-> w, events |-> events]
         ELSE IF io = "write"
         THEN [raised |-> TRUE, ret |-> None, written |-> w,
               events |-> events \o <<"open file", "close file">>]
         ELSE [raised |-> FALSE, ret |-> None, written |-> Append(w, d),
               events |-> events \o <<"open file", "close file">>]
    ELSE IF io = "write"
         THEN [raised |-> TRUE, ret |-> None, written |-> w, events |-> events]
         ELSE [raised |-> FALSE, ret |-> None, written |-> Append(w, d),
               events |-> events]

\* mutant of AddLinksIO: doc.close() follows the loop and tobytes, without
\* try and finally
AddLinksIONoFinally(d, positions, f, output, io, w) ==
    IF positions = <<>> THEN WriteOutputIO(d, output, io, w, <<>>)
    ELSE IF io = "fitz.open"
    THEN [raised |-> TRUE, ret |-> None, written |-> w, events |-> <<>>]
    ELSE LET r == AddLinksFrom(d, positions, 1, f)
         IN  IF r.raised \/ io = "tobytes"
             THEN [raised |-> TRUE, ret |-> None, written |-> w,
                   events |-> <<"open document">>]
             ELSE WriteOutputIO(r.doc, output, io, w,
                                <<"open document", "close document">>)

\* LinkAnnotator.add_links: fitz.open, then in the try the loop of _add_link
\* and doc.tobytes(), in the finally doc.close(), then _write_output
AddLinksIO(d, positions, f, output, io, w) ==
    IF positions = <<>> THEN WriteOutputIO(d, output, io, w, <<>>)
    ELSE IF io = "fitz.open"
    THEN [raised |-> TRUE, ret |-> None, written |-> w, events |-> <<>>]
    ELSE LET r == AddLinksFrom(d, positions, 1, f)
         IN  IF r.raised \/ io = "tobytes"
             THEN [raised |-> TRUE, ret |-> None, written |-> w,
                   events |-> <<"open document", "close document">>]
             ELSE WriteOutputIO(r.doc, output, io, w,
                                <<"open document", "close document">>)

\* the calls that can raise in this add_links: a call that is not made does
\* not raise
IoFaultsOf(positions, output) ==
    {io \in IoFaults :
        /\ io \in {"fitz.open", "tobytes"} => positions # <<>>
        /\ io = "open" => output = "path"
        /\ io = "write" => output # "None"}

\* LinkAnnotator.add_links, the whole call
add_links ==
    /\ pc = "add_links"
    /\ \E f \in FaultsOf(doc[1], link_positions[1]),
          io \in IoFaultsOf(link_positions[1], args.output) :
        LET r == AddLinksIO(doc[1], link_positions[1], f, args.output, io, written)
        IN  /\ faults' = Some(f)
            /\ pc' = IF r.raised THEN "failed" ELSE "done"
            /\ written' = r.written
            /\ call' = [op |-> "add_links", arg |-> io,
                        ret |-> [raised |-> r.raised, events |-> r.events]]
    /\ UNCHANGED <<spec, link_manager, args, prepend_page_count, generator,
                   prepend_bytes, link_positions, doc, page_count, previous, steps,
                   offset_set>>

SpecLH == InitLB /\ [][add_links]_vars

(***************************************************************************)
(* Claims.                                                                 *)
(***************************************************************************)
RECURSIVE ElementTargets(_, _)
ElementTargets(content, i) ==
    IF i > Len(content) THEN <<>>
    ELSE content[i].links \o ElementTargets(content, i + 1)

RECURSIVE LinkItemTargets(_, _)
\* the targetPage of every LinkItem of the specification, in document order
LinkItemTargets(pages, i) ==
    IF i > Len(pages) THEN <<>>
    ELSE ElementTargets(pages[i].content, 1) \o LinkItemTargets(pages, i + 1)

\* every record of the link manager is resolved with the current offset
AllResolved ==
    \A i \in 1..Len(link_manager.links) :
        link_manager.links[i].adjusted_page =
            Some(link_manager.links[i].original_page + link_manager.prepended_page_count)

\* C1: after build(), the link attached for a LinkItem whose target page p is a
\* page of the original document (1 <= p <= N) goes to the merged page of index
\* c + p - 1, c the number of prefix pages, and that page is page p of the
\* original document.
C1_LinkReachesOriginalPage ==
    pc = "done" =>
        LET d == doc[1]
            c == Len(prepend_bytes[1])
            N == args.original_pdf
            targets == LinkItemTargets(spec, 1)
        IN  \A k \in 1..Len(d.links) :
                LET p == targets[d.links[k].from]
                IN  p \in 1..N =>
                        /\ d.links[k].page = c + p - 1
                        /\ d.pages[d.links[k].page + 1] = [of |-> "original", no |-> p]

\* C1 witness: a finished build with two prefix pages and a link to the last
\* page of the original document
C1_Witness ==
    /\ pc = "done"
    /\ Len(prepend_bytes[1]) = 2
    /\ \E k \in 1..Len(doc[1].links) :
        /\ LinkItemTargets(spec, 1)[doc[1].links[k].from] = args.original_pdf
        /\ doc[1].links[k].page = Len(doc[1].pages) - 1

\* C2: every anchor build() hands to the Link Binder has the target page of its
\* LinkItem plus c, the page count of pass 1 that set_prepended_page_count
\* stored in the link manager; none has the unshifted target.
C2_AnchorsShifted ==
    link_positions # None =>
        LET c == prepend_page_count[1]
            targets == LinkItemTargets(spec, 1)
        IN  /\ link_manager.prepended_page_count = c
            /\ \A i \in 1..Len(link_positions[1]) :
                /\ link_positions[1][i].target_page = targets[i] + c
                /\ link_positions[1][i].target_page # targets[i]

\* C2 witness: two anchors handed to the binder after a pass 1 of two pages
C2_Witness ==
    /\ pc = "add_links"
    /\ prepend_page_count = Some(2)
    /\ Len(link_positions[1]) = 2

\* C3: the count get_prepend_page_count() returned before build() is the page
\* count of the output of build() minus the page count of the original.
C3_PreviewCount ==
    (pc = "done" /\ page_count # None) =>
        page_count[1] = Len(doc[1].pages) - args.original_pdf

\* C3 witness: a build finished after the caller asked for the count, which was 3
C3_Witness ==
    /\ pc = "done"
    /\ call.op \in BuildMethods
    /\ page_count = Some(3)

\* C4: after the merge, for every n in 1..totalPages the destination page_n
\* exists exactly once and refers to the page of index n - 1, and there is no
\* other destination.
C4_OneDestinationPerPage ==
    doc # None =>
        LET nd == doc[1].named_destinations
            total == Len(doc[1].pages)
        IN  /\ \A n \in 1..total :
                /\ Cardinality({k \in DOMAIN nd : nd[k].title = PagePrefix \o Str(n)}) = 1
                /\ \A k \in DOMAIN nd :
                    nd[k].title = PagePrefix \o Str(n) => nd[k].page_number = n - 1
            /\ \A k \in DOMAIN nd :
                \E n \in 1..total : nd[k].title = PagePrefix \o Str(n)

\* C4 witness: a merged document of four pages and no anchor at all, so that no
\* link refers to any of its destinations
C4_Witness ==
    /\ pc = "add_links"
    /\ link_positions = Some(<<>>)
    /\ Len(doc[1].pages) = 4
    /\ Len(doc[1].named_destinations) = 4

\* C5: the merged document is the prefix pages in their order, then the pages
\* of the original document in their order.
C5_PrefixThenOriginal ==
    doc # None =>
        LET pages == doc[1].pages
            prefix == prepend_bytes[1]
            c == Len(prefix)
            N == args.original_pdf
        IN  /\ Len(pages) = c + N
            /\ \A i \in 1..c : pages[i] = prefix[i]
            /\ \A j \in 1..N : pages[c + j] = [of |-> "original", no |-> j]

\* C5 witness: two prefix pages merged with an original of two pages
C5_Witness ==
    /\ pc = "add_links"
    /\ Len(prepend_bytes[1]) = 2
    /\ args.original_pdf = 2
    /\ Len(doc[1].pages) = 4

\* C6 as claimed: once set_prepended_page_count has been called, every record
\* has adjusted_page = original_page + the current offset, whatever the order
\* of the calls.
C6_Original == offset_set => AllResolved

\* C6 as amended: every record has adjusted_page None or original_page + the
\* current offset, and all of them have the latter when the last call was
\* set_prepended_page_count: a record registered after it stays None.
C6_ResolvedOrNone ==
    /\ \A i \in 1..Len(link_manager.links) :
        \/ link_manager.links[i].adjusted_page = None
        \/ link_manager.links[i].adjusted_page =
             Some(link_manager.links[i].original_page + link_manager.prepended_page_count)
    /\ call.op = "set_prepended_page_count" => AllResolved

\* C6 witness: set_prepended_page_count ran last, on two records, after an
\* earlier call of it with another count
C6_Witness ==
    /\ call.op = "set_prepended_page_count"
    /\ call.old # 0
    /\ call.old # call.arg
    /\ Len(link_manager.links) = 2
    /\ AllResolved

\* C7: set_prepended_page_count(c2) leaves the offset c2, the same number of
\* records and every record with adjusted_page = original_page + c2, whatever
\* count an earlier call had set: nothing of c1 accumulates.
C7_SetOffsetRecomputes ==
    [][call'.op = "set_prepended_page_count" =>
        /\ link_manager'.prepended_page_count = call'.arg
        /\ Len(link_manager'.links) = Len(link_manager.links)
        /\ \A i \in 1..Len(link_manager.links) :
            link_manager'.links[i] =
                [original_page |-> link_manager.links[i].original_page,
                 adjusted_page |-> Some(link_manager.links[i].original_page + call'.arg)]
      ]_vars

\* C7 witness: set_prepended_page_count(c2) on a record that an earlier
\* set_prepended_page_count(c1), c1 # c2 and c1 # 0, had resolved
C7_Witness ==
    /\ call.op = "set_prepended_page_count"
    /\ call.old \notin {0, call.arg}
    /\ call.arg # 0
    /\ Len(link_manager.links) >= 1
    /\ link_manager.links[1].adjusted_page =
         Some(link_manager.links[1].original_page + call.arg)

\* C8: get_adjusted_page(p) returns p + the current offset in every state of the
\* link manager and changes neither the offset nor the records.
C8_GetAdjustedPagePure ==
    [][call'.op = "get_adjusted_page" =>
        /\ call'.ret = call'.arg + link_manager.prepended_page_count
        /\ link_manager' = link_manager
      ]_vars

\* C8 witness: get_adjusted_page on a new link manager: no record, offset
\* never set
C8_Witness ==
    /\ call.op = "get_adjusted_page"
    /\ ~offset_set
    /\ link_manager = NewLinkManager
    /\ call.ret = call.arg

\* C9: get_destination_name(p) returns "page_" followed by p + the current
\* offset; after a build, the name of a page p of the original document is a
\* destination of the final document, that of the page which holds page p.
C9_DestinationName ==
    call.op = "get_destination_name" =>
        /\ call.ret = PagePrefix \o Str(call.arg + link_manager.prepended_page_count)
        /\ (pc = "done" /\ call.arg \in 1..args.original_pdf) =>
              \E k \in DOMAIN doc[1].named_destinations :
                  /\ doc[1].named_destinations[k].title = call.ret
                  /\ doc[1].pages[doc[1].named_destinations[k].page_number + 1]
                       = [of |-> "original", no |-> call.arg]

\* C9 witness: after a build with two prefix pages, the name of page 2 of the
\* original document is page_4
C9_Witness ==
    /\ call.op = "get_destination_name"
    /\ pc = "done"
    /\ call.arg = 2
    /\ args.original_pdf = 2
    /\ call.ret = <<"p", "a", "g", "e", "_", "4">>

\* C10: register_link(p) appends one record with original_page p and
\* adjusted_page None, and changes neither the offset nor the records there
\* were; a page registered again gets a further record.
C10_RegisterAppends ==
    [][call'.op = "register_link" =>
        /\ link_manager'.links =
             Append(link_manager.links,
                    [original_page |-> call'.arg, adjusted_page |-> None])
        /\ Len(link_manager'.links) = Len(link_manager.links) + 1
        /\ link_manager'.prepended_page_count = link_manager.prepended_page_count
      ]_vars

\* C10 witness: the same page registered twice, once before the offset was set
\* and once after: two records, the first resolved, the second not
C10_Witness ==
    /\ call.op = "register_link"
    /\ Len(link_manager.links) = 2
    /\ link_manager.links[1].original_page = link_manager.links[2].original_page
    /\ link_manager.links[1].adjusted_page # None
    /\ link_manager.links[2].adjusted_page = None

\* what build() of a DocumentBuilder just created from sp produces for an
\* original document of n pages
FirstBuild(sp, n) ==
    LET g1 == Generate(sp, NewLinkManager)
        lm == SetPrependedPageCount(NewLinkManager, g1.page_count)
        g2 == Generate(sp, lm)
        d == MergeWithDestinations(g2.bytes, n)
    IN  [original_pdf |-> n,
         pages |-> d.pages,
         named_destinations |-> d.named_destinations,
         targets |-> [i \in 1..Len(g2.link_positions) |-> g2.link_positions[i].target_page]]

\* C11: a build() produces the same pages, the same named destinations and the
\* same anchor targets as the build() before it on the same DocumentBuilder
\* when both get the same original document, although it starts with the
\* offset the earlier one left; and the same as the build() of a
\* DocumentBuilder just created from the same specification.
C11_BuildsAgree ==
    pc = "done" =>
        /\ (previous # None /\ previous[1].original_pdf = args.original_pdf) =>
              /\ Len(Built.pages) = Len(previous[1].pages)
              /\ Built.named_destinations = previous[1].named_destinations
              /\ Built.targets = previous[1].targets
        /\ Built = FirstBuild(spec, args.original_pdf)

\* C11 witness: a second build() on the same builder and the same original of
\* two pages, begun with the offset 2 of the first, with an anchor
C11_Witness ==
    /\ pc = "done"
    /\ previous # None
    /\ previous[1].original_pdf = 2
    /\ args.original_pdf = 2
    /\ Len(previous[1].pages) = 4
    /\ Len(Built.targets) >= 1

\* C12 as claimed: in every build(), pass 1 composes with a link manager whose
\* offset is 0 and that no earlier build() has used: when pass 1 has run, the
\* offset of the link manager is 0, it has never been set, and the anchors
\* pass 1 recorded carry the unshifted target pages.
C12_CountingPassOffsetZero ==
    pc = "set_offset" =>
        /\ link_manager.prepended_page_count = 0
        /\ ~offset_set
        /\ \A i \in 1..Len(generator[1]) :
            generator[1][i].target_page = LinkItemTargets(spec, 1)[i]

\* C13: build() without output returns the final document and writes nothing;
\* build() with an output path or stream writes the final, annotated document
\* to it, exactly once, and returns None; build_to_file is build() with the
\* output path.  Nothing is written before the last step.
C13_OutputContract ==
    /\ pc \notin {"idle", "done"} => written = <<>>
    /\ pc = "done" =>
        /\ args.output = "None" => written = <<>>
        /\ args.output # "None" => written = <<doc[1]>>
        /\ call.op \in BuildMethods =>
            /\ args.output = "None" => call.ret = Some(doc[1])
            /\ args.output # "None" => call.ret = None
            /\ call.op = "build_to_file" => (args.output = "path" /\ call.ret = None)

\* C13 witness: build_to_file has written a final document that holds a link
C13_Witness ==
    /\ pc = "done"
    /\ call.op = "build_to_file"
    /\ Len(written) = 1
    /\ Len(written[1].links) >= 1
    /\ Len(written[1].pages) = 4

\* C14: a build() whose pass 1 raises, or whose merge raises, stops there: the
\* caller gets that error, no later step of the build runs (no offset is set
\* after a failed pass 1, no document is merged or annotated), and nothing is
\* written to the output (faults = None: the build has not come to its last
\* step, add_links).  After a failure the next step of the builder is pass 1
\* of a new build().
C14_FailureAborts ==
    /\ [](/\ Generate(spec, link_manager).error =>
                /\ pc \in {"idle", "failed"}
                /\ ~offset_set
                /\ call.op \in BuildMethods => call.ret = "LayoutError"
          /\ (pc # "idle" /\ ~args.readable) =>
                /\ pc \in {"set_offset", "pass2", "merge", "failed"}
                /\ (pc = "failed" /\ call.op \in BuildMethods /\ prepend_bytes # None)
                      => call.ret = "PdfReadError"
          /\ (pc = "failed" /\ faults = None) =>
                /\ doc = None
                /\ written = <<>>
                /\ call.op \in BuildMethods => call.ret \in {"LayoutError", "PdfReadError"})
    /\ [][pc = "failed" => pc' \in {"failed", "set_offset"}]_vars

\* C14 witness: build() with an output path failed in the merge, after both
\* passes, and the path has not been written
C14_Witness ==
    /\ pc = "failed"
    /\ call.op = "build"
    /\ call.ret = "PdfReadError"
    /\ args.output = "path"
    /\ prepend_bytes # None
    /\ Len(link_positions[1]) >= 1
    /\ written = <<>>

\* C15 as claimed: whatever raises for one anchor in add_links (the search for
\* its text, the computation of its rectangle, the insertion of its link) is
\* caught there: build() still ends with the final document, in which exactly
\* the anchors that passed the validation and had no failure have their link.
C15_PerLinkFailuresSwallowed ==
    faults # None =>
        /\ pc = "done"
        /\ \A i \in 1..Len(link_positions[1]) :
            (InRange(doc[1], link_positions[1][i]) /\ faults[1][i] = "none")
                <=> (\E k \in 1..Len(doc[1].links) : doc[1].links[k].from = i)

RECURSIVE LinksFor(_, _, _, _)
\* the links the anchors from the i-th on are to get: one for each anchor
\* with both indices in the document and no failure, in the order of the list
LinksFor(d, positions, f, i) ==
    IF i > Len(positions) THEN <<>>
    ELSE (IF /\ 0 <= positions[i].page_index
             /\ positions[i].page_index < Len(d.pages)
             /\ 0 <= positions[i].target_page - 1
             /\ positions[i].target_page - 1 < Len(d.pages)
             /\ f[i] = "none"
          THEN <<[kind |-> "goto", from |-> i, on_page |-> positions[i].page_index,
                  page |-> positions[i].target_page - 1]>>
          ELSE <<>>)
         \o LinksFor(d, positions, f, i + 1)

\* C16: add_links inserts a link for an anchor only if 0 <= page_index <
\* total pages and 0 <= target_page - 1 < total pages; an anchor that fails
\* either check is skipped: no error, no change of the document, and the
\* anchors after it are processed as if it were not in the list.
C16_OutOfRangeSkipped ==
    [][(pc = "add_links" /\ \A i \in 1..Len(link_positions[1]) : faults'[1][i] # "search") =>
        /\ pc' = "done"
        /\ doc'[1].pages = doc[1].pages
        /\ doc'[1].named_destinations = doc[1].named_destinations
        /\ doc'[1].links = doc[1].links \o LinksFor(doc[1], link_positions[1], faults'[1], 1)
      ]_vars

\* C16 witness: add_links has skipped a first anchor whose page index is
\* negative and given the second anchor its link
C16_Witness ==
    /\ pc = "done"
    /\ call.op = "add_links"
    /\ Len(link_positions[1]) = 2
    /\ link_positions[1][1].page_index < 0
    /\ Len(doc[1].links) = 1
    /\ doc[1].links[1].from = 2

\* a bullet of the data has an empty content list
HasEmptyBullet(data) ==
    \E i \in 1..Len(data.pages) : \E j \in 1..Len(data.pages[i].content) :
        /\ data.pages[i].content[j].type \in BulletTypes
        /\ data.pages[i].content[j].content = <<>>

\* C17: from_dict on data with no page, or with a bulletPoint or an
\* indentedBulletPoint whose content list is empty, raises the validation
\* error and creates no DocumentBuilder; without one, no pass has composed
\* anything and nothing has been counted, merged or written.
C17_EmptyContentRejected ==
    /\ (call.op = "from_dict" /\ (call.arg.pages = <<>> \/ HasEmptyBullet(call.arg))) =>
          /\ call.ret = "JsonParseError"
          /\ pc = "new"
    /\ pc = "new" =>
          /\ spec = None
          /\ generator = None
          /\ prepend_page_count = None
          /\ page_count = None
          /\ doc = None
          /\ written = <<>>

\* C17 witness: data rejected for an indentedBulletPoint without content that
\* comes after a bulletPoint with a link
C17_Witness ==
    /\ call.op = "from_dict"
    /\ call.ret = "JsonParseError"
    /\ Len(call.arg.pages) = 1
    /\ Len(call.arg.pages[1].content) = 2
    /\ call.arg.pages[1].content[1].type = "bulletPoint"
    /\ call.arg.pages[1].content[1].content # <<>>
    /\ call.arg.pages[1].content[2].type = "indentedBulletPoint"
    /\ call.arg.pages[1].content[2].content = <<>>
    /\ pc = "new"

\* C18: a composition pass that succeeds records one LinkPosition per
\* LinkItem of the specification, in document order and with the adjusted
\* target of its item, whatever the overflowBehavior of the bullets; an
\* element without LinkItems records none.
C18_OneAnchorPerLinkItem ==
    (call.op = "generate" /\ pc = "done") =>
        LET targets == LinkItemTargets(spec, 1)
        IN  /\ Len(link_positions[1]) = Len(targets)
            /\ \A k \in 1..Len(targets) :
                 link_positions[1][k].target_page =
                     GetAdjustedPage(link_manager, targets[k])

\* C18 witness: a wrapWithPageBreak bullet with one LinkItem that breaks the
\* page, after a noWrap bullet with two: three anchors, the last on page 2
C18_Witness ==
    /\ call.op = "generate"
    /\ pc = "done"
    /\ Len(spec) = 1
    /\ Len(spec[1].content) = 2
    /\ spec[1].content[1].overflow_behavior = "noWrap"
    /\ Len(spec[1].content[1].links) = 2
    /\ spec[1].content[2].overflow_behavior = "wrapWithPageBreak"
    /\ Len(spec[1].content[2].links) = 1
    /\ Len(link_positions[1]) = 3
    /\ link_positions[1][3].page_index = 1
    /\ link_manager.prepended_page_count = 2

\* C19: get_prepend_page_count changes nothing of the builder: its link
\* manager (offset and records), its specification and what the last build
\* left are as before the call, whether it returns the count or raises; and
\* a build gives what the first build of a new builder gives, however many
\* times the count was asked for before it.
C19_PreviewReadOnly ==
    /\ [][call'.op = "get_prepend_page_count" =>
            /\ link_manager' = link_manager
            /\ spec' = spec
            /\ UNCHANGED <<pc, args, prepend_page_count, generator, prepend_bytes,
                           link_positions, doc, written, offset_set>>]_vars
    /\ []((pc = "done" /\ page_count # None) =>
            Built = FirstBuild(spec, args.original_pdf))

\* C19 witness: the count is asked for after the second build of a builder
\* whose link manager holds the offset 2
C19_Witness ==
    /\ call.op = "get_prepend_page_count"
    /\ page_count = Some(2)
    /\ pc = "done"
    /\ previous # None
    /\ link_manager.prepended_page_count = 2
    /\ Len(link_positions[1]) > 0

\* the segments of a kind
CountKind(segs, kind) == Len(SelectSeq(segs, LAMBDA seg : seg.kind = kind))

\* the text holds n regions open ... close, one after the other, and no
\* other opening or closing tag
HasRegions(text, open, close, n) ==
    LET tags == SelectSeq(text, LAMBDA c : c \in {open, close})
    IN  /\ Len(tags) = 2 * n
        /\ \A k \in 1..Len(tags) : tags[k] = (IF k % 2 = 1 THEN open ELSE close)

\* C20: format_text, applying bold and italic, turns a text of plain runs, n
\* bold pairs and m italic pairs into a text with n bold regions and m
\* italic regions in which no marker character is left.
C20_PairsBecomeRegions ==
    (call.op = "format_text" /\ args.apply_bold /\ args.apply_italic) =>
        /\ HasRegions(call.ret, "<b>", "</b>", CountKind(args.segments, "bold"))
        /\ HasRegions(call.ret, "<i>", "</i>", CountKind(args.segments, "italic"))
        /\ \A k \in 1..Len(call.ret) : call.ret[k] \notin {"*", "_"}

\* steps is the beginning of BuildSteps
StepsInOrder ==
    /\ Len(steps) <= Len(BuildSteps)
    /\ steps = SubSeq(BuildSteps, 1, Len(steps))

\* C21: the steps a build() has completed are a beginning of counting,
\* offset-resolved, rendering, merged, annotated, each step adds the next one
\* and none is taken twice or left out; a build that returns has completed
\* all five, and the output is written in the step that completes annotated,
\* never before.
C21_StepsInOrder ==
    /\ [](/\ StepsInOrder
          /\ pc = "done" => steps = BuildSteps
          /\ written # <<>> => (pc = "done" /\ steps = BuildSteps)
          /\ (pc \notin {"idle", "done", "failed"}) =>
                pc = <<"set_offset", "pass2", "merge", "add_links">>[Len(steps)])
    /\ [][/\ (steps' # steps /\ steps' # <<>>) =>
                /\ Len(steps') = Len(steps) + 1 \/ (NoBuildRunning /\ Len(steps') = 1)
          /\ (written' # written /\ written' # <<>>) =>
                (pc = "add_links" /\ steps' = BuildSteps /\ Len(written') = 1)]_vars

\* C21 witness: a second build of a builder has completed its five steps and
\* written the document with a link to a stream
C21_Witness ==
    /\ pc = "done"
    /\ steps = BuildSteps
    /\ previous # None
    /\ args.output = "stream"
    /\ Len(written) = 1
    /\ Len(written[1].links) > 0

\* the pages of the document that come from the prefix
PrefixPagesOf(d) == SelectSeq(d.pages, LAMBDA page : page.of = "prepend")

\* C22: once pass 2 has composed the prefix, its pages are as many as pass 1
\* counted, which is the offset the link manager holds; and the document
\* merged from them begins with that many prefix pages.
C22_PassesCountAlike ==
    /\ pc \in {"merge", "add_links", "done"} =>
          /\ Len(prepend_bytes[1]) = prepend_page_count[1]
          /\ link_manager.prepended_page_count = Len(prepend_bytes[1])
    /\ pc \in {"add_links", "done"} =>
          Len(PrefixPagesOf(doc[1])) = link_manager.prepended_page_count

\* C22 witness: the second build of a builder, whose pass 1 ran with the
\* offset 2 of the first, has merged a prefix of two pages with a link on
\* the second
C22_Witness ==
    /\ pc = "done"
    /\ previous # None
    /\ prepend_page_count = Some(2)
    /\ Len(prepend_bytes[1]) = 2
    /\ Len(link_positions[1]) = 1
    /\ link_positions[1][1].page_index = 1

\* C23: when the text of an anchor is empty or the search finds nothing, the
\* link gets the estimated rectangle of the anchor (its x, y, width and height
\* turned to the top-left origin of the page); when the search finds one
\* match, the link gets the rectangle of that match.
C23_NoneOrOneMatch ==
    call.op = "_add_link" =>
        /\ (args.link_pos.link_text = <<>> \/ args.text_instances = <<>>) =>
              call.ret = [x0 |-> args.link_pos.x,
                          y0 |-> PageHeight - (args.link_pos.y + args.link_pos.height),
                          x1 |-> args.link_pos.x + args.link_pos.width,
                          y1 |-> PageHeight - args.link_pos.y]
        /\ (args.link_pos.link_text # <<>> /\ Len(args.text_instances) = 1) =>
              call.ret = args.text_instances[1]

\* C23 witness: an anchor without text gets its estimated rectangle although
\* the page holds a rectangle a search would have returned
C23_Witness ==
    /\ call.op = "_add_link"
    /\ args.link_pos.link_text = <<>>
    /\ args.link_pos.y = 1
    /\ Len(args.text_instances) = 1
    /\ call.ret = [x0 |-> 1, y0 |-> 2, x1 |-> 3, y1 |-> 3]
    /\ call.ret # args.text_instances[1]

\* the distance of a match to the estimated y of the anchor, from the top
VerticalDistance(rect) == Abs(rect.y1 - (PageHeight - args.link_pos.y))

\* C24: when the search finds several matches, the link gets the rectangle of
\* a match than which none is closer to the estimated y of the anchor, taken
\* from the top of the page, and every match found before it is further away.
C24_ClosestMatchFirstOnTies ==
    (call.op = "_add_link" /\ args.link_pos.link_text # <<>>
        /\ Len(args.text_instances) >= 2) =>
        \E k \in 1..Len(args.text_instances) :
            /\ call.ret = args.text_instances[k]
            /\ \A j \in 1..Len(args.text_instances) :
                 VerticalDistance(args.text_instances[k])
                    <= VerticalDistance(args.text_instances[j])
            /\ \A j \in 1..(k - 1) :
                 VerticalDistance(args.text_instances[k])
                    < VerticalDistance(args.text_instances[j])

\* C24 witness: of three matches the second and the third are equally close,
\* one above and one below the estimated y, and the second is taken
C24_Witness ==
    /\ call.op = "_add_link"
    /\ args.link_pos.link_text # <<>>
    /\ args.link_pos.y = 2
    /\ Len(args.text_instances) = 3
    /\ args.text_instances[1].y1 = 4
    /\ args.text_instances[2].y1 = 1
    /\ args.text_instances[3].y1 = 3
    /\ call.ret = args.text_instances[2]

\* the anchors a pass over the specification records with the offset the link
\* manager holds now, by their targets
AnchorTargetsNow ==
    LET targets == LinkItemTargets(spec, 1)
    IN  [k \in 1..Len(targets) |-> GetAdjustedPage(link_manager, targets[k])]

\* C25: the list a generate() returns holds the anchors of that pass and no
\* other, however many passes the generator has run before and whatever
\* they recorded, and so does the list of the generator; and the list an
\* earlier pass returned is after a later pass what it was.
C25_AnchorsOfThisPassOnly ==
    /\ []((call.op = "generate" /\ pc = "done") =>
            /\ [k \in 1..Len(link_positions[1]) |-> link_positions[1][k].target_page]
                  = AnchorTargetsNow
            /\ generator[1] = link_positions[1])
    /\ [][(call'.op = "generate" /\ pc' = "done" /\ link_positions # None) =>
            previous' = link_positions]_vars

\* C25 witness: a generator has run with the offset 0 and then with the
\* offset 2: the second list has the two anchors of the second pass, the
\* first list still those of the first
C25_Witness ==
    /\ call.op = "generate"
    /\ pc = "done"
    /\ link_manager.prepended_page_count = 2
    /\ previous # None
    /\ Len(previous[1]) = 2
    /\ Len(link_positions[1]) = 2
    /\ \A k \in 1..2 : link_positions[1][k].target_page = previous[1][k].target_page + 2

\* C26: after a build() the link manager holds one record for each LinkItem
\* of the specification, in document order, each resolved with the offset
\* that the one set_prepended_page_count of the build has set.
C26_RecordsRegisteredAndResolved ==
    pc = "done" =>
        LET targets == LinkItemTargets(spec, 1)
        IN  /\ offset_set
            /\ Len(link_manager.links) = Len(targets)
            /\ \A k \in 1..Len(link_manager.links) :
                 /\ link_manager.links[k].original_page = targets[k]
                 /\ link_manager.links[k].adjusted_page
                       = Some(targets[k] + link_manager.prepended_page_count)

\* the k-th LinkItem of the specification has a targetPage beyond the last
\* page of the original document
BeyondOriginal(k) == LinkItemTargets(spec, 1)[k] > args.original_pdf

\* C27: a build() whose specification has a LinkItem beyond the original
\* document ends in the annotation step unless the PDF engine raises for
\* another anchor; in the final document no destination has the name of that
\* item's adjusted page and no link comes from its anchor, while every other
\* anchor the engine did not fail for has its link to its adjusted page.
C27_TargetBeyondOriginal ==
    /\ []((pc = "done" /\ faults # None) =>
            \A k \in 1..Len(link_positions[1]) :
                IF BeyondOriginal(k)
                THEN /\ \A n \in 1..Len(doc[1].named_destinations) :
                            doc[1].named_destinations[n].title
                               # GetDestinationName(link_manager, LinkItemTargets(spec, 1)[k])
                     /\ \A l \in 1..Len(doc[1].links) : doc[1].links[l].from # k
                ELSE faults[1][k] = "none" =>
                        \E l \in 1..Len(doc[1].links) :
                            /\ doc[1].links[l].from = k
                            /\ doc[1].links[l].page
                                 = GetAdjustedPage(link_manager, LinkItemTargets(spec, 1)[k]) - 1)
    /\ [][(pc = "add_links" /\ \E k \in 1..Len(link_positions[1]) : BeyondOriginal(k)) =>
            \/ pc' = "done"
            \/ \E j \in 1..Len(link_positions[1]) :
                 ~BeyondOriginal(j) /\ faults'[1][j] = "search"]_vars

\* C27 witness: of two LinkItems the first points beyond the original of two
\* pages; the document has the link of the second and no other
C27_Witness ==
    /\ pc = "done"
    /\ args.original_pdf = 2
    /\ Len(link_positions[1]) = 2
    /\ LinkItemTargets(spec, 1) = <<3, 1>>
    /\ Len(doc[1].links) = 1
    /\ doc[1].links[1].from = 2

\* the LinkableItems of a content list, in order
LinkItemsIn(content) == SelectSeq(content, LAMBDA item : item.kind = "link")

\* C28: each link of a bullet has a range [char_start, char_end) of the plain
\* line of the bullet (the glyph, a space, the plain label, a space, the
\* items joined by ", ") over which the line reads the text of the link; the
\* links are those of the LinkableItems in item order, and each range ends
\* before the next one starts.
C28_RangesCoverLinkTexts ==
    call.op = "_build_bullet_point" =>
        LET links == call.ret.adjusted_links
            line == call.ret.plain_text
            items == LinkItemsIn(args.content)
        IN  /\ Len(links) = Len(items)
            /\ \A k \in 1..Len(links) :
                 /\ links[k].text = items[k].text
                 /\ 0 <= links[k].char_start
                 /\ links[k].char_start <= links[k].char_end
                 /\ links[k].char_end <= Len(line)
                 /\ SubSeq(line, links[k].char_start + 1, links[k].char_end)
                       = links[k].text
                 /\ k < Len(links) => links[k].char_end < links[k + 1].char_start

\* C28 witness: a bullet with a label in bold markers, a link, a plain item
\* and a second link; the second link reads "a" at [10, 11) of "o a a&, a, a"
C28_Witness ==
    /\ call.op = "_build_bullet_point"
    /\ args.label = <<"*", "*", "a", "*", "*">>
    /\ Len(args.content) = 3
    /\ args.content[1] = [kind |-> "link", text |-> <<"a", "&">>, target_page |-> 1]
    /\ args.content[2].kind = "plain"
    /\ args.content[2].text = <<"a">>
    /\ args.content[3].kind = "link"
    /\ Len(call.ret.adjusted_links) = 2
    /\ call.ret.adjusted_links[1].char_start = 4
    /\ call.ret.adjusted_links[2].char_start = 11
    /\ call.ret.adjusted_links[2].char_end = 12

\* the handles that the events leave open
OpenHandles(events) ==
    {h \in {"document", "file"} :
        Len(SelectSeq(events, LAMBDA e : e = <<"open", h>>))
          > Len(SelectSeq(events, LAMBDA e : e = <<"close", h>>))}

\* the events, each as what is done and the handle
HandleEvents ==
    [k \in 1..Len(call.ret.events) |->
        CASE call.ret.events[k] = "open document" -> <<"open", "document">>
          [] call.ret.events[k] = "close document" -> <<"close", "document">>
          [] call.ret.events[k] = "open file" -> <<"open", "file">>
          [] call.ret.events[k] = "close file" -> <<"close", "file">>]

\* C29: when add_links has returned or raised, every handle it opened is
\* closed: the document opened in the PDF engine, whether the loop and
\* tobytes completed or one of them raised, and the output file, whether
\* the write completed or raised.
C29_HandlesReleased ==
    (call.op = "add_links" /\ pc \in {"done", "failed"}) =>
        OpenHandles(HandleEvents) = {}

\* C29 witness: the text search raises for the second anchor after the first
\* got its link: add_links raises with the document opened and closed
C29_Witness ==
    /\ call.op = "add_links"
    /\ pc = "failed"
    /\ call.arg = "none"
    /\ Len(link_positions[1]) = 2
    /\ faults[1][1] = "none"
    /\ faults[1][2] = "search"
    /\ call.ret.events = <<"open document", "close document">>

\* every anchor of the list is on one of the first count pages
AnchorsWithin(positions, count) ==
    \A k \in 1..Len(positions) :
        0 <= positions[k].page_index /\ positions[k].page_index < count

\* C30: the anchors of pass 1 have page indices below the count pass 1
\* returned and those of pass 2 below the number of pages pass 2 composed;
\* every link of the final document is on a page of the prefix, below the
\* offset, and none on a page of the original document.
C30_AnchorsOnPrefixPages ==
    /\ pc = "set_offset" => AnchorsWithin(generator[1], prepend_page_count[1])
    /\ pc \in {"merge", "add_links", "done"} =>
          AnchorsWithin(link_positions[1], Len(prepend_bytes[1]))
    /\ pc = "done" =>
          \A l \in 1..Len(doc[1].links) :
              /\ doc[1].links[l].on_page < link_manager.prepended_page_count
              /\ doc[1].pages[doc[1].links[l].on_page + 1].of = "prepend"

\* C30 witness: a link on the last page of a prefix of two pages, which is
\* followed by an original of one page
C30_Witness ==
    /\ pc = "done"
    /\ link_manager.prepended_page_count = 2
    /\ args.original_pdf = 1
    /\ Len(doc[1].links) = 1
    /\ doc[1].links[1].on_page = 1
    /\ doc[1].pages[3].of = "original"

====
